---- MODULE Spec2Model ----
(***************************************************************************)
(* A model of the vera-counter core: the paginated bucket-listing fetcher  *)
(* (fetchAllObjects), the aggregator (getVerifierAllianceStats) with its   *)
(* key classifier (getTableFromKey), and the CSV time-series summarizer    *)
(* (parseCsv, summarizeSeries).                                            *)
(*                                                                         *)
(* A JavaScript string is a sequence of one-character strings, so that     *)
(* split, trim, startsWith and template concatenation are computed on the  *)
(* characters.  null/undefined is the value NULL, which is no string.      *)
(***************************************************************************)
EXTENDS Integers, Sequences, FiniteSets

VARIABLES
    pc,                 \* position of the operation that runs
    page,               \* loop counter of fetchAllObjects
    marker,             \* let marker: string | null
    continuationToken,  \* let continuationToken: string | null
    seenTokens,         \* Set<string> of composite cursor keys
    map,                \* Map<string, ListingObject>, in insertion order
    pageUrls,           \* string[] of the requests issued
    fetched,            \* what fetchAllObjects returned, if it returned
    stats,              \* what getVerifierAllianceStats returned, if it returned
    server,             \* which endpoint the run talks to
    issued,             \* number of fresh continuation tokens the endpoint gave
    trace,              \* history of the endpoint's responses (ghost)
    csvFile,            \* the text of the CSV resource
    input,              \* the lines the text was written from, labelled (ghost)
    daily,              \* what getVerifiedContractsDailyData returned or threw
    prev,               \* the series the CSV was last rewritten from (ghost)
    keyIn,              \* the argument of getTableFromKey
    tableOut,           \* what getTableFromKey returned
    xmlBody,            \* the argument of parseListingXml
    listing,            \* what the body was written from, labelled (ghost)
    parsedPage          \* what parseListingXml returned

runVars == <<page, marker, continuationToken, seenTokens, map, pageUrls,
             fetched, stats, server, issued, trace>>

csvVars == <<csvFile, input, daily, prev>>

keyVars == <<keyIn, tableOut>>

xmlVars == <<xmlBody, listing, parsedPage>>

vars == <<pc, runVars, csvVars, keyVars, xmlVars>>

-----------------------------------------------------------------------------
(* Strings *)

NULL == <<"null">>

\* JavaScript truthiness of a string | null value
Truthy(s) == s # NULL /\ s # <<>>

\* s ?? ""
OrEmpty(s) == IF s = NULL THEN <<>> ELSE s

\* a ?? b
Coalesce(a, b) == IF a = NULL THEN b ELSE a

StartsWith(s, p) == Len(s) >= Len(p) /\ SubSeq(s, 1, Len(p)) = p

\* s.slice(n) for 0 <= n
Slice(s, n) == SubSeq(s, n + 1, Len(s))

\* s.split(sep)[0]: the characters before the first sep
RECURSIVE FirstSegment(_, _)
FirstSegment(s, sep) ==
    IF s = <<>> \/ Head(s) = sep THEN <<>>
    ELSE <<Head(s)>> \o FirstSegment(Tail(s), sep)

\* The order localeCompare gives the characters used here (punctuation
\* before symbols before digits before letters).
Collation == <<" ", "_", "-", ",", ".", "/", "|",
               "0", "1", "2", "3", "4", "5", "6", "7", "8", "9",
               "a", "b", "c", "d", "e", "f", "g", "h", "i", "j", "k", "l", "m",
               "n", "o", "p", "q", "r", "s", "t", "u", "v", "w", "x", "y", "z">>

CharRank(c) == CHOOSE i \in 1..Len(Collation) : Collation[i] = c

\* a.localeCompare(b): negative, zero or positive
RECURSIVE LocaleCompare(_, _)
LocaleCompare(a, b) ==
    IF a = <<>> THEN (IF b = <<>> THEN 0 ELSE -1)
    ELSE IF b = <<>> THEN 1
    ELSE IF Head(a) = Head(b) THEN LocaleCompare(Tail(a), Tail(b))
    ELSE IF CharRank(Head(a)) < CharRank(Head(b)) THEN -1 ELSE 1

Digit == <<"0", "1", "2", "3", "4", "5", "6", "7", "8", "9">>

\* The decimal digits of a natural number
RECURSIVE Decimal(_)
Decimal(n) ==
    IF n < 10 THEN <<Digit[n + 1]>>
    ELSE Decimal(n \div 10) \o <<Digit[(n % 10) + 1]>>

-----------------------------------------------------------------------------
(* Program constants *)

MAX_LISTING_PAGES == 250

BYTES_PER_GB == 1073741824

VERIFIER_ALLIANCE_ORIGIN == "https://export.verifieralliance.org"

DATASET_PREFIX == <<"v","2","/">>

TABLES == <<
    <<"v","e","r","i","f","i","e","d","_","c","o","n","t","r","a","c","t","s">>,
    <<"s","o","u","r","c","e","s">>,
    <<"c","o","m","p","i","l","e","d","_","c","o","n","t","r","a","c","t","s","_","s","o","u","r","c","e","s">>,
    <<"c","o","m","p","i","l","e","d","_","c","o","n","t","r","a","c","t","s">>,
    <<"c","o","n","t","r","a","c","t","_","d","e","p","l","o","y","m","e","n","t","s">>,
    <<"c","o","n","t","r","a","c","t","s">>,
    <<"c","o","d","e">> >>

-----------------------------------------------------------------------------
(* Numbers and timestamps *)

NaN == [nan |-> TRUE, v |-> 0]
Num(n) == [nan |-> FALSE, v |-> n]

\* a > b on JavaScript numbers: false as soon as one side is NaN
NumGt(a, b) == ~a.nan /\ ~b.nan /\ a.v > b.v

TS1 == <<"1","9","7","0","-","0","1","-","0","1","T","0","0",":","0","0",":","0","1",".","0","0","0","Z">>
TS2 == <<"1","9","7","0","-","0","1","-","0","1","T","0","0",":","0","0",":","0","2",".","0","0","0","Z">>
TS2b == <<"1","9","7","0","-","0","1","-","0","1","T","0","0",":","0","0",":","0","2","Z">>
TS3 == <<"1","9","7","0","-","0","1","-","0","1","T","0","0",":","0","0",":","0","3",".","0","0","0","Z">>
TSBad == <<"n","o","t","-","a","-","d","a","t","e">>

\* Date.parse on the timestamps the endpoint may give: milliseconds since
\* the epoch, NaN for a string that is no date.
DateParse(s) ==
    CASE s = TS1  -> Num(1000)
      [] s = TS2  -> Num(2000)
      [] s = TS2b -> Num(2000)
      [] s = TS3  -> Num(3000)
      [] OTHER    -> NaN

RECURSIVE Gcd(_, _)
Gcd(a, b) == IF b = 0 THEN a ELSE Gcd(b, a % b)

\* bytes / BYTES_PER_GB, as the exact fraction in lowest terms
toGB(bytes) ==
    LET g == Gcd(IF bytes < 0 THEN -bytes ELSE bytes, BYTES_PER_GB)
    IN  [num |-> bytes \div g, den |-> BYTES_PER_GB \div g]

-----------------------------------------------------------------------------
(* Map<K, V>: entries in insertion order; set() on a present key keeps  *)
(* the key's position and replaces its value.                            *)

MapHas(m, k) == \E i \in 1..Len(m) : m[i].key = k

MapIndex(m, k) == CHOOSE i \in 1..Len(m) : m[i].key = k

\* Mutant: set() keeps the value a present key already has
MapSetKeepFirst(m, k, v) ==
    IF MapHas(m, k) THEN m ELSE Append(m, [key |-> k, value |-> v])

MapSet(m, k, v) ==
    IF MapHas(m, k)
    THEN [m EXCEPT ![MapIndex(m, k)] = [key |-> k, value |-> v]]
    ELSE Append(m, [key |-> k, value |-> v])

MapGet(m, k) == m[MapIndex(m, k)].value

\* Array.from(map.values())
MapValues(m) == [i \in 1..Len(m) |-> m[i].value]

-----------------------------------------------------------------------------
(* fetchAllObjects *)

\* Mutant: the composite key leaves the continuation token out
TokenKeyMarkerOnly(m, t) == OrEmpty(m) \o <<"|">>

\* `${marker ?? ""}|${continuationToken ?? ""}`
TokenKey(m, t) == OrEmpty(m) \o <<"|">> \o OrEmpty(t)

\* The search parameters of the request URL
BuildUrl(prefix, m, t) ==
    IF Truthy(t)
    THEN [prefix |-> prefix, listType |-> <<"2">>, continuationToken |-> t, marker |-> NULL]
    ELSE IF Truthy(m)
    THEN [prefix |-> prefix, listType |-> NULL, continuationToken |-> NULL, marker |-> m]
    ELSE [prefix |-> prefix, listType |-> NULL, continuationToken |-> NULL, marker |-> NULL]

\* Mutant: the page cap is off by one
LoopContinuesOffByOne(p, seen, m, t) ==
    p <= MAX_LISTING_PAGES /\ TokenKey(m, t) \notin seen

\* The loop goes on to a request: page cap not reached, cursor pair not seen
LoopContinues(p, seen, m, t) ==
    p < MAX_LISTING_PAGES /\ TokenKey(m, t) \notin seen

\* for (const object of parsed.objects) map.set(object.key, object)
RECURSIVE MergePage(_, _)
MergePage(m, objs) ==
    IF objs = <<>> THEN m
    ELSE MergePage(MapSet(m, Head(objs).key, Head(objs)), Tail(objs))

\* parsed.objects.at(-1)?.key ?? null
LastKey(objs) == IF objs = <<>> THEN NULL ELSE objs[Len(objs)].key

\* The cursor update at the end of the loop body; more = the loop goes on
NextCursor(parsed, m, t) ==
    IF ~parsed.isTruncated
    THEN [more |-> FALSE, marker |-> m, continuationToken |-> t]
    ELSE IF Truthy(parsed.nextContinuationToken)
    THEN [more |-> TRUE, marker |-> NULL,
          continuationToken |-> parsed.nextContinuationToken]
    ELSE LET mk == Coalesce(parsed.nextMarker, LastKey(parsed.objects))
         IN  [more |-> Truthy(mk), marker |-> mk, continuationToken |-> NULL]

\* Array.prototype.sort with (a, b) => a.key.localeCompare(b.key): stable
RECURSIVE InsertSorted(_, _)
InsertSorted(sorted, o) ==
    IF sorted = <<>> THEN <<o>>
    ELSE IF LocaleCompare(sorted[Len(sorted)].key, o.key) <= 0
    THEN Append(sorted, o)
    ELSE Append(InsertSorted(SubSeq(sorted, 1, Len(sorted) - 1), o),
                sorted[Len(sorted)])

RECURSIVE SortObjects(_)
SortObjects(s) ==
    IF s = <<>> THEN <<>>
    ELSE InsertSorted(SortObjects(SubSeq(s, 1, Len(s) - 1)), s[Len(s)])

\* return { objects: Array.from(map.values()).sort(...), pageUrls }
FetchResult(m, urls) ==
    [some |-> TRUE, objects |-> SortObjects(MapValues(m)), pageUrls |-> urls]

None == [some |-> FALSE]

-----------------------------------------------------------------------------
(* getVerifierAllianceStats *)

pickLatest(current, candidate) ==
    IF ~Truthy(current) THEN candidate
    ELSE IF NumGt(DateParse(candidate), DateParse(current)) THEN candidate
    ELSE current

\* A predicate that forgets the dot: any segment the name begins
TableMatchesAnyPrefix(topLevel, name) ==
    topLevel = name \/ StartsWith(topLevel, name)

\* (name) => topLevel === name || topLevel.startsWith(`${name}.`)
TableMatches(topLevel, name) ==
    topLevel = name \/ StartsWith(topLevel, name \o <<".">>)

\* tables.find(pred) ?? null
FindTable(tables, topLevel) ==
    IF \E i \in 1..Len(tables) : TableMatches(topLevel, tables[i])
    THEN tables[CHOOSE i \in 1..Len(tables) :
                    /\ TableMatches(topLevel, tables[i])
                    /\ \A j \in 1..(i - 1) : ~TableMatches(topLevel, tables[j])]
    ELSE NULL

getTableFromKey(key) ==
    IF ~StartsWith(key, DATASET_PREFIX) THEN NULL
    ELSE FindTable(TABLES, FirstSegment(Slice(key, Len(DATASET_PREFIX)), "/"))

emptyTableStat(table) ==
    [table |-> table, files |-> 0, sizeBytes |-> 0, sizeGB |-> toGB(0),
     latestUpdate |-> NULL,
     endpoint |-> [origin |-> VERIFIER_ALLIANCE_ORIGIN,
                   prefix |-> DATASET_PREFIX \o table \o <<"/">>]]

\* new Map(TABLES.map((table) => [table, emptyTableStat(table)]))
InitialTableMap ==
    [i \in 1..Len(TABLES) |-> [key |-> TABLES[i], value |-> emptyTableStat(TABLES[i])]]

\* A loop body that skips an object of no category before counting it
AggregateObjectSkipFirst(acc, object) ==
    LET table == getTableFromKey(object.key)
    IN  IF table = NULL \/ ~MapHas(acc.tableMap, table) THEN acc
        ELSE LET stat == MapGet(acc.tableMap, table)
             IN  [acc EXCEPT !.totalBytes = @ + object.size,
                             !.latestGlobal = pickLatest(@, object.lastModified),
                             !.tableMap =
                    MapSet(@, table,
                        [stat EXCEPT !.files = @ + 1,
                                     !.sizeBytes = @ + object.size,
                                     !.latestUpdate = pickLatest(@, object.lastModified)])]

\* One iteration of the loop over the objects
AggregateObject(acc, object) ==
    LET table == getTableFromKey(object.key)
        base  == [acc EXCEPT !.totalBytes = @ + object.size,
                             !.latestGlobal = pickLatest(@, object.lastModified)]
    IN  IF table = NULL \/ ~MapHas(acc.tableMap, table) THEN base
        ELSE LET stat == MapGet(acc.tableMap, table)
             IN  [base EXCEPT !.tableMap =
                    MapSet(@, table,
                        [stat EXCEPT !.files = @ + 1,
                                     !.sizeBytes = @ + object.size,
                                     !.latestUpdate = pickLatest(@, object.lastModified)])]

RECURSIVE AggregateLoop(_, _)
AggregateLoop(acc, objects) ==
    IF objects = <<>> THEN acc
    ELSE AggregateLoop(AggregateObject(acc, Head(objects)), Tail(objects))

\* Mutant: only the categories that counted a file are listed
TablesOutputNonEmpty(tableMap) ==
    LET all == [i \in 1..Len(tableMap) |->
                  [tableMap[i].value EXCEPT !.sizeGB = toGB(tableMap[i].value.sizeBytes)]]
        Counted(stat) == stat.files > 0
    IN  SelectSeq(all, Counted)

\* const tables = TABLES.map((table) => ({...stat, sizeGB: toGB(stat.sizeBytes)}))
TablesOutput(tableMap) ==
    [i \in 1..Len(TABLES) |->
        LET stat == IF MapHas(tableMap, TABLES[i]) THEN MapGet(tableMap, TABLES[i])
                    ELSE emptyTableStat(TABLES[i])
        IN  [stat EXCEPT !.sizeGB = toGB(stat.sizeBytes)]]

StatsResponse(objects, urls) ==
    LET acc == AggregateLoop([totalBytes |-> 0, latestGlobal |-> NULL,
                              tableMap |-> InitialTableMap], objects)
    IN  [source |-> [origin |-> VERIFIER_ALLIANCE_ORIGIN, prefix |-> DATASET_PREFIX,
                     pagesFetched |-> Len(urls), pageUrls |-> urls],
         totals |-> [files |-> Len(objects), sizeBytes |-> acc.totalBytes,
                     sizeGB |-> toGB(acc.totalBytes),
                     latestUpdate |-> acc.latestGlobal],
         tables |-> TablesOutput(acc.tableMap)]

-----------------------------------------------------------------------------
(* More of String and Number, for the CSV summarizer *)

\* s.split(sep) for a one-character separator.  The fields of a string are
\* the fields of its two halves, the last field of the first half running
\* on into the first field of the second.
JoinFields(left, right) ==
    SubSeq(left, 1, Len(left) - 1) \o <<left[Len(left)] \o right[1]>> \o Tail(right)

RECURSIVE SplitRange(_, _, _, _)
SplitRange(s, lo, hi, sep) ==
    IF lo > hi THEN << <<>> >>
    ELSE IF lo = hi THEN (IF s[lo] = sep THEN << <<>>, <<>> >> ELSE << <<s[lo]>> >>)
    ELSE JoinFields(SplitRange(s, lo, (lo + hi) \div 2, sep),
                    SplitRange(s, ((lo + hi) \div 2) + 1, hi, sep))

Split(s, sep) == SplitRange(s, 1, Len(s), sep)

\* A carriage return right before the line feed goes with the separator
StripCarriageReturns(parts) ==
    [i \in 1..Len(parts) |->
        IF i < Len(parts) /\ parts[i] # <<>> /\ parts[i][Len(parts[i])] = "\r"
        THEN SubSeq(parts[i], 1, Len(parts[i]) - 1)
        ELSE parts[i]]

\* s.split(/\r?\n/)
SplitLines(s) == StripCarriageReturns(Split(s, "\n"))

WhiteSpace == {" ", "\t", "\r", "\n"}

RECURSIVE TrimStart(_)
TrimStart(s) ==
    IF s # <<>> /\ Head(s) \in WhiteSpace THEN TrimStart(Tail(s)) ELSE s

RECURSIVE TrimEnd(_)
TrimEnd(s) ==
    IF s # <<>> /\ s[Len(s)] \in WhiteSpace
    THEN TrimEnd(SubSeq(s, 1, Len(s) - 1)) ELSE s

Trim(s) == TrimEnd(TrimStart(s))

UpperCase == <<"A","B","C","D","E","F","G","H","I","J","K","L","M",
               "N","O","P","Q","R","S","T","U","V","W","X","Y","Z">>
LowerCase == <<"a","b","c","d","e","f","g","h","i","j","k","l","m",
               "n","o","p","q","r","s","t","u","v","w","x","y","z">>

toLowerCase(s) ==
    [i \in 1..Len(s) |->
        IF \E k \in 1..26 : UpperCase[k] = s[i]
        THEN LowerCase[CHOOSE k \in 1..26 : UpperCase[k] = s[i]]
        ELSE s[i]]

IsDigit(c) == \E k \in 1..10 : Digit[k] = c

DigitValue(c) == (CHOOSE k \in 1..10 : Digit[k] = c) - 1

AllDigits(s) == \A i \in 1..Len(s) : IsDigit(s[i])

\* The value of a sequence of decimal digits
RECURSIVE DigitsValue(_)
DigitsValue(s) ==
    IF s = <<>> THEN 0
    ELSE 10 * DigitsValue(SubSeq(s, 1, Len(s) - 1)) + DigitValue(s[Len(s)])

RECURSIVE Pow10(_)
Pow10(n) == IF n = 0 THEN 1 ELSE 10 * Pow10(n - 1)

HexDigits == <<"0","1","2","3","4","5","6","7","8","9","a","b","c","d","e","f">>

\* The value of a sequence of digits of the radix, -1 when one is none
RECURSIVE RadixValue(_, _)
RadixValue(s, radix) ==
    IF s = <<>> THEN 0
    ELSE LET c    == toLowerCase(<<s[Len(s)]>>)[1]
             rest == RadixValue(SubSeq(s, 1, Len(s) - 1), radix)
         IN  IF rest < 0 \/ ~(\E k \in 1..radix : HexDigits[k] = c) THEN -1
             ELSE radix * rest + (CHOOSE k \in 1..radix : HexDigits[k] = c) - 1

\* Number(s) on a trimmed string, told apart as far as Number.isInteger and
\* the sign need: an integer with its value, a number that is no integer
\* (a fraction, an infinity), or NaN.
IntegerNumber(n) == [kind |-> "integer", v |-> n]
OtherNumber == [kind |-> "other", v |-> 0]
NotANumber == [kind |-> "nan", v |-> 0]

\* StrUnsignedDecimalLiteral: digits, a fraction, an exponent
UnsignedDecimal(s) ==
    LET ePos    == { i \in 1..Len(s) : s[i] \in {"e", "E"} }
        hasExp  == ePos # {}
        e       == IF hasExp THEN CHOOSE i \in ePos : \A j \in ePos : i <= j ELSE Len(s) + 1
        mant    == SubSeq(s, 1, e - 1)
        expo    == SubSeq(s, e + 1, Len(s))
        expNeg  == expo # <<>> /\ Head(expo) = "-"
        expDig  == IF expo # <<>> /\ Head(expo) \in {"+", "-"} THEN Tail(expo) ELSE expo
        expOk   == ~hasExp \/ (expDig # <<>> /\ AllDigits(expDig))
        dots    == { i \in 1..Len(mant) : mant[i] = "." }
        d       == IF dots # {} THEN CHOOSE i \in dots : \A j \in dots : i <= j
                   ELSE Len(mant) + 1
        ip      == SubSeq(mant, 1, d - 1)
        fp      == SubSeq(mant, d + 1, Len(mant))
        mantOk  == AllDigits(ip) /\ AllDigits(fp) /\ Len(ip) + Len(fp) >= 1
        digits  == DigitsValue(ip \o fp)
        expVal  == IF hasExp /\ expOk
                   THEN (IF expNeg THEN -DigitsValue(expDig) ELSE DigitsValue(expDig))
                   ELSE 0
        scale   == expVal - Len(fp)
    IN  IF ~mantOk \/ ~expOk THEN NotANumber
        ELSE IF digits = 0 THEN IntegerNumber(0)
        ELSE IF scale >= 0 THEN IntegerNumber(digits * Pow10(scale))
        ELSE IF digits % Pow10(-scale) = 0 THEN IntegerNumber(digits \div Pow10(-scale))
        ELSE OtherNumber

NumberOf(s) ==
    IF s = NULL THEN NotANumber                      \* Number(undefined)
    ELSE IF s = <<>> THEN IntegerNumber(0)           \* Number("")
    ELSE IF Len(s) > 2 /\ s[1] = "0" /\ s[2] \in {"x", "X", "o", "O", "b", "B"}
    THEN LET radix == CASE s[2] \in {"x", "X"} -> 16
                        [] s[2] \in {"o", "O"} -> 8
                        [] OTHER -> 2
             v == RadixValue(SubSeq(s, 3, Len(s)), radix)
         IN  IF v < 0 THEN NotANumber ELSE IntegerNumber(v)
    ELSE LET signed == Head(s) \in {"+", "-"}
             body   == IF signed THEN Tail(s) ELSE s
             u      == IF body = <<"I","n","f","i","n","i","t","y">> THEN OtherNumber
                       ELSE UnsignedDecimal(body)
         IN  IF u.kind = "integer" /\ Head(s) = "-" THEN IntegerNumber(-u.v) ELSE u

-----------------------------------------------------------------------------
(* parseCsv, summarizeSeries *)

EXPECTED_HEADER == <<"d","a","y",",","c","o","u","n","t">>

\* /^\d{4}-\d{2}-\d{2}$/.test(day)
IsDayShape(day) ==
    /\ Len(day) = 10
    /\ \A i \in {1, 2, 3, 4, 6, 7, 9, 10} : IsDigit(day[i])
    /\ day[5] = "-" /\ day[8] = "-"

\* parseLine once the line is split: the point of a row, or the error thrown
PointOf(line, fields, day, count) ==
    IF Len(fields) > 2 \/ ~IsDayShape(day)
    THEN [ok |-> FALSE, error |-> "Invalid CSV row", line |-> line]
    ELSE IF count.kind # "integer" \/ count.v < 0
    THEN [ok |-> FALSE, error |-> "Invalid CSV count value", line |-> line]
    ELSE [ok |-> TRUE, day |-> day, count |-> count.v]

\* const [rawDay, rawCount, ...rest] = line.split(",")
SplitFields(line, fields) ==
    PointOf(line, fields, Trim(fields[1]),
            NumberOf(IF Len(fields) >= 2 THEN Trim(fields[2]) ELSE NULL))

parseLine(line) == SplitFields(line, Split(line, ","))

\* .map((line) => line.trim())
TrimAll(parts) == [i \in 1..Len(parts) |-> Trim(parts[i])]

\* A reader that takes a line only when a line feed ends it
NonBlankLinesTerminated(csv) ==
    LET NonEmpty(l) == l # <<>>
        parts == SplitLines(csv)
    IN  SelectSeq(TrimAll(SubSeq(parts, 1, Len(parts) - 1)), NonEmpty)

\* csv.split(/\r?\n/).map((line) => line.trim()).filter(Boolean)
NonBlankLines(csv) ==
    LET NonEmpty(l) == l # <<>>
    IN  SelectSeq(TrimAll(SplitLines(csv)), NonEmpty)

\* A merge that keeps the last count of a day
AddCountOverwrite(dayCounts, entry) ==
    MapSet(dayCounts, entry.day, entry.count)

\* dayCounts.set(entry.day, (dayCounts.get(entry.day) ?? 0) + entry.count)
AddCount(dayCounts, entry) ==
    MapSet(dayCounts, entry.day,
           (IF MapHas(dayCounts, entry.day) THEN MapGet(dayCounts, entry.day) ELSE 0)
           + entry.count)

\* One turn of the loop over the rows: the row's count added to the map,
\* or the error thrown
FoldEntry(dayCounts, entry) ==
    IF ~entry.ok THEN entry
    ELSE [ok |-> TRUE, dayCounts |-> AddCount(dayCounts, entry)]

\* The loop over the rows lo..hi from the map so far: the map of day counts,
\* or the first error thrown, after which no row is read.  The turns of
\* lo..hi are those of its first half and then those of its second half.
RECURSIVE FoldRows(_, _, _, _)
FoldRows(rows, lo, hi, acc) ==
    IF ~acc.ok \/ lo > hi THEN acc
    ELSE IF lo = hi THEN FoldEntry(acc.dayCounts, parseLine(rows[lo]))
    ELSE FoldRows(rows, ((lo + hi) \div 2) + 1, hi,
                  FoldRows(rows, lo, (lo + hi) \div 2, acc))

\* Point j goes before point i when the comparator puts it first, or leaves
\* the two as they stand and j stood first (the sort is stable)
GoesBefore(j, i, compared) == compared < 0 \/ (compared = 0 /\ j < i)

\* How many points go before point i in the sorted array
RankOf(s, i) ==
    Cardinality({ j \in 1..Len(s) :
                    GoesBefore(j, i, LocaleCompare(s[j].day, s[i].day)) })

\* The ranks of the points lo..hi
RECURSIVE RanksRange(_, _, _)
RanksRange(s, lo, hi) ==
    IF lo > hi THEN <<>>
    ELSE IF lo = hi THEN <<RankOf(s, lo)>>
    ELSE RanksRange(s, lo, (lo + hi) \div 2)
         \o RanksRange(s, ((lo + hi) \div 2) + 1, hi)

PlaceByRank(s, rank) ==
    [k \in 1..Len(s) |-> s[CHOOSE i \in 1..Len(s) : rank[i] = k - 1]]

\* Array.prototype.sort with (a, b) => a.day.localeCompare(b.day): stable
SortPoints(s) == PlaceByRank(s, RanksRange(s, 1, Len(s)))

\* Array.from(dayCounts.entries()).map(([day, count]) => ({ day, count })).sort(...)
SeriesOf(folded) ==
    IF ~folded.ok THEN folded
    ELSE [ok |-> TRUE,
          series |-> SortPoints([i \in 1..Len(folded.dayCounts) |->
                                    [day |-> folded.dayCounts[i].key,
                                     count |-> folded.dayCounts[i].value]])]

\* parseCsv from the header check on
ParseLines(lines) ==
    IF lines = <<>> THEN [ok |-> TRUE, series |-> <<>>]
    ELSE IF toLowerCase(Head(lines)) # EXPECTED_HEADER
    THEN [ok |-> FALSE, error |-> "Unexpected CSV header", line |-> Head(lines)]
    ELSE SeriesOf(FoldRows(lines, 2, Len(lines), [ok |-> TRUE, dayCounts |-> <<>>]))

parseCsv(csv) == ParseLines(NonBlankLines(csv))

\* series.slice(-windowSize)
SliceLast(series, windowSize) ==
    IF Len(series) <= windowSize THEN series
    ELSE SubSeq(series, Len(series) - windowSize + 1, Len(series))

\* points.reduce((sum, entry) => sum + entry.count, 0) over the points
\* lo..hi: the sum of the first half and of the second half
RECURSIVE SumRange(_, _, _)
SumRange(series, lo, hi) ==
    IF lo > hi THEN 0
    ELSE IF lo = hi THEN series[lo].count
    ELSE SumRange(series, lo, (lo + hi) \div 2)
         + SumRange(series, ((lo + hi) \div 2) + 1, hi)

SumCounts(series) == SumRange(series, 1, Len(series))

\* Number((total / length).toFixed(2)), in hundredths: toFixed takes the
\* nearest hundredth and the larger one of two equally near.
ToFixed2(total, length) == (200 * total + length) \div (2 * length)

\* An average that divides by the window, not by the points in it
getRecentAverageOverWindow(series, windowSize) ==
    LET recent == SliceLast(series, windowSize)
    IN  IF recent = <<>> THEN 0
        ELSE ToFixed2(SumCounts(recent), windowSize)

\* The average in hundredths
getRecentAverage(series, windowSize) ==
    LET recent == SliceLast(series, windowSize)
    IN  IF recent = <<>> THEN 0
        ELSE ToFixed2(SumCounts(recent), Len(recent))

\* number | null
NullNumber == [null |-> TRUE, v |-> 0]
JustNumber(n) == [null |-> FALSE, v |-> n]

summarizeSeries(series) ==
    [total |-> SumCounts(series),
     latestDay |-> IF series = <<>> THEN NULL ELSE series[Len(series)].day,
     latestCount |-> IF series = <<>> THEN NullNumber
                     ELSE JustNumber(series[Len(series)].count),
     average7d |-> getRecentAverage(series, 7),
     average30d |-> getRecentAverage(series, 30)]

-----------------------------------------------------------------------------
(* parseListingXml *)

\* The least number of a set of naturals, 0 of the empty set
LeastOrZero(S) == IF S = {} THEN 0 ELSE CHOOSE i \in S : \A j \in S : i <= j

\* The first position from `from` on where pat stands in s, 0 when nowhere
IndexOf(s, pat, from) ==
    LeastOrZero({ i \in from..(Len(s) - Len(pat) + 1) :
                    SubSeq(s, i, i + Len(pat) - 1) = pat })

\* s.replace(/pat/g, rep) for a literal pat
RECURSIVE ReplaceAll(_, _, _)
ReplaceFrom(s, pat, rep, i) ==
    IF i = 0 THEN s
    ELSE SubSeq(s, 1, i - 1) \o rep
         \o ReplaceAll(SubSeq(s, i + Len(pat), Len(s)), pat, rep)

ReplaceAll(s, pat, rep) == ReplaceFrom(s, pat, rep, IndexOf(s, pat, 1))

AMP == <<"&","a","m","p",";">>
LT == <<"&","l","t",";">>
GT == <<"&","g","t",";">>
QUOT == <<"&","q","u","o","t",";">>
APOS == <<"&","#","3","9",";">>

decodeXml(value) ==
    ReplaceAll(ReplaceAll(ReplaceAll(ReplaceAll(ReplaceAll(value,
        AMP, <<"&">>), LT, <<"<">>), GT, <<">">>), QUOT, <<"\"">>), APOS, <<"'">>)

OpenTag(tag) == <<"<">> \o tag \o <<">">>
CloseTag(tag) == <<"<", "/">> \o tag \o <<">">>

\* The first match of <tag>([\s\S]*?)</tag>: where <tag> first stands and
\* where </tag> first stands after it; no match when either is 0
TagMatch(source, tag, open) ==
    [open |-> open,
     close |-> IF open = 0 THEN 0
               ELSE IndexOf(source, CloseTag(tag), open + Len(OpenTag(tag)))]

TagValueAt(source, tag, m) ==
    IF m.open = 0 \/ m.close = 0 THEN NULL
    ELSE decodeXml(Trim(SubSeq(source, m.open + Len(OpenTag(tag)), m.close - 1)))

getTagValue(source, tag) ==
    TagValueAt(source, tag, TagMatch(source, tag, IndexOf(source, OpenTag(tag), 1)))

CONTENTS == <<"C","o","n","t","e","n","t","s">>
KEY == <<"K","e","y">>
SIZE == <<"S","i","z","e">>
LAST_MODIFIED == <<"L","a","s","t","M","o","d","i","f","i","e","d">>
IS_TRUNCATED == <<"I","s","T","r","u","n","c","a","t","e","d">>
NEXT_MARKER == <<"N","e","x","t","M","a","r","k","e","r">>
NEXT_CONTINUATION_TOKEN ==
    <<"N","e","x","t","C","o","n","t","i","n","u","a","t","i","o","n","T","o","k","e","n">>

\* xml.match(/<Contents>[\s\S]*?<\/Contents>/g) ?? []: the matches from
\* position `from` on, each search starting where the match before ended
RECURSIVE BlocksFrom(_, _)
BlocksAt(xml, m) ==
    IF m.open = 0 \/ m.close = 0 THEN <<>>
    ELSE <<SubSeq(xml, m.open, m.close + Len(CloseTag(CONTENTS)) - 1)>>
         \o BlocksFrom(xml, m.close + Len(CloseTag(CONTENTS)))

BlocksFrom(xml, from) ==
    BlocksAt(xml, TagMatch(xml, CONTENTS, IndexOf(xml, OpenTag(CONTENTS), from)))

\* Number(v) of a string | null: null is 0
NumberOfNullable(v) == IF v = NULL THEN IntegerNumber(0) ELSE NumberOf(v)

\* The body of the loop over the blocks: the object pushed, or none.  The
\* size of an object is the number as NumberOf tells it.
ObjectOf(key, size, lastModified) ==
    IF ~Truthy(key) \/ ~Truthy(lastModified) \/ size.kind = "nan" THEN <<>>
    ELSE <<[key |-> key, size |-> size, lastModified |-> lastModified]>>

ParseBlock(block) ==
    ObjectOf(getTagValue(block, KEY), NumberOfNullable(getTagValue(block, SIZE)),
             getTagValue(block, LAST_MODIFIED))

RECURSIVE ParseBlocks(_, _)
ParseBlocks(blocks, i) ==
    IF i > Len(blocks) THEN <<>>
    ELSE ParseBlock(blocks[i]) \o ParseBlocks(blocks, i + 1)

parseListingXml(xml) ==
    [objects |-> ParseBlocks(BlocksFrom(xml, 1), 1),
     isTruncated |-> toLowerCase(OrEmpty(getTagValue(xml, IS_TRUNCATED)))
                         = <<"t","r","u","e">>,
     nextMarker |-> getTagValue(xml, NEXT_MARKER),
     nextContinuationToken |-> getTagValue(xml, NEXT_CONTINUATION_TOKEN)]

-----------------------------------------------------------------------------
(* The listing endpoint *)

\* Bounds of the model
MaxPageLen == 2
MaxTruncated == 2

Obj(k, s, t) == [key |-> k, size |-> s, lastModified |-> t]

KeySourcesA == <<"v","2","/","s","o","u","r","c","e","s","/","a">>
KeyCodeB == <<"v","2","/","c","o","d","e","/","b">>
KeySourcesOld == <<"v","2","/","s","o","u","r","c","e","s","_","o","l","d","/","x">>
KeyOutside == <<"x","/","c","o","d","e","/","c">>

\* The objects the endpoints list: two records of one key, and another key
Objects ==
    { Obj(KeySourcesA, 1, TS1), Obj(KeySourcesA, 2, TS2), Obj(KeyCodeB, 4, TS3) }

SeqsUpTo(S, n) == UNION { [1..k -> S] : k \in 0..n }

Range(f) == { f[i] : i \in DOMAIN f }

\* A non-success HTTP status: the body is not read
FailedResponse ==
    [ok |-> FALSE, objects |-> <<>>, isTruncated |-> FALSE,
     nextMarker |-> NULL, nextContinuationToken |-> NULL]

\* The next continuation token of an endpoint that never repeats one
FreshToken(n) == <<"t">> \o Decimal(n)

\* Three endpoints.  "listing" serves pages of any objects and paginates by
\* a new token, for at most MaxTruncated truncated pages.  "cursor" answers
\* any combination of truncation flag, marker and token over a small
\* alphabet, for at most MaxTruncated truncated pages.  "stream" goes on for
\* ever: every page may be truncated, with a token never given before or
\* with the token of the request.
ListingResponses(t, n, k) ==
    [ok : {TRUE}, objects : SeqsUpTo(Objects, MaxPageLen), isTruncated : {FALSE},
     nextMarker : {NULL}, nextContinuationToken : {NULL}]
    \cup
    (IF k < MaxTruncated
     THEN [ok : {TRUE}, objects : SeqsUpTo(Objects, MaxPageLen), isTruncated : {TRUE},
           nextMarker : {NULL}, nextContinuationToken : {FreshToken(n + 1), t}]
     ELSE {})

CursorResponses(k) ==
    { r \in [ok : {TRUE},
             objects : { <<>>, <<Obj(KeySourcesA, 1, TS1), Obj(KeyCodeB, 4, TS3)>> },
             isTruncated : BOOLEAN,
             nextMarker : {NULL, <<>>, <<"m">>, <<"|">>},
             nextContinuationToken : {NULL, <<>>, <<"t">>, <<"|">>}] :
        r.isTruncated => k < MaxTruncated }

StreamResponses(t, n) ==
    [ok : {TRUE},
     objects : { <<>>, <<Obj(KeySourcesA, 1, TS1)>>, <<Obj(KeySourcesA, 2, TS2)>> },
     isTruncated : BOOLEAN,
     nextMarker : {NULL},
     nextContinuationToken : {FreshToken(n + 1), t}]

Responses ==
    {FailedResponse} \cup
    (CASE server = "listing" -> ListingResponses(continuationToken, issued, trace.truncated)
       [] server = "cursor"  -> CursorResponses(trace.truncated)
       [] server = "stream"  -> StreamResponses(continuationToken, issued))

\* The continuation tokens the requests of the run have carried
UsedTokens == { pageUrls[i].continuationToken : i \in 1..Len(pageUrls) } \ {NULL}

\* The record of the last entry of a page with key k
LastOccurrence(objs, k) ==
    objs[CHOOSE i \in 1..Len(objs) :
            objs[i].key = k /\ \A j \in (i + 1)..Len(objs) : objs[j].key # k]

\* What the history keeps of the cursor fields of a page
PageCursor(truncated, next, token, last) ==
    [isTruncated |-> truncated, nextMarker |-> next,
     nextContinuationToken |-> token, lastKey |-> last]

NoPage == PageCursor(FALSE, NULL, NULL, NULL)

\* What the history keeps of a response: how many came, whether one failed,
\* how many were truncated, whether each one
\* before the latest was a truncated page with a new non-empty token, what
\* the latest was and its cursor fields, every object delivered, and each
\* key's latest record.
Observe(h, r) ==
    [responses |-> h.responses + 1,
     truncated |-> h.truncated + (IF r.ok /\ r.isTruncated THEN 1 ELSE 0),
     failed |-> h.failed \/ ~r.ok,
     prefixFresh |-> h.prefixFresh /\ h.last \in {"none", "fresh"},
     last |-> IF ~r.ok THEN "failed"
              ELSE IF ~r.isTruncated THEN "final"
              ELSE IF Truthy(r.nextContinuationToken)
                      /\ r.nextContinuationToken \notin UsedTokens THEN "fresh"
              ELSE "other",
     lastPage |-> IF ~r.ok THEN NoPage
                  ELSE PageCursor(r.isTruncated, r.nextMarker,
                                  r.nextContinuationToken, LastKey(r.objects)),
     delivered |-> IF r.ok THEN h.delivered \cup Range(r.objects) ELSE h.delivered,
     latest |-> IF ~r.ok THEN h.latest
                ELSE { o \in h.latest : \A i \in 1..Len(r.objects) : r.objects[i].key # o.key }
                     \cup { LastOccurrence(r.objects, r.objects[i].key) : i \in 1..Len(r.objects) }]

-----------------------------------------------------------------------------
(* The run of getVerifierAllianceStats *)

\* No CSV is loaded and no key classified
CsvIdle ==
    /\ csvFile = <<>>
    /\ input = <<>>
    /\ daily = [state |-> "none"]
    /\ prev = None

KeyIdle ==
    /\ keyIn = <<>>
    /\ tableOut = NULL

\* No listing body is parsed
XmlIdle ==
    /\ xmlBody = <<>>
    /\ listing = None
    /\ parsedPage = None

\* No listing is fetched
RunIdle ==
    /\ page = 0
    /\ marker = NULL
    /\ continuationToken = NULL
    /\ seenTokens = {}
    /\ map = <<>>
    /\ pageUrls = <<>>
    /\ fetched = None
    /\ stats = None
    /\ issued = 0
    /\ trace = [responses |-> 0, truncated |-> 0, failed |-> FALSE,
                prefixFresh |-> TRUE, last |-> "none", lastPage |-> NoPage,
                delivered |-> {}, latest |-> {}]

Init ==
    /\ pc = "loop"
    /\ RunIdle
    /\ server \in {"listing", "cursor", "stream"}
    /\ CsvIdle
    /\ KeyIdle
    /\ XmlIdle

\* When each step of the run can be taken
CanIssueRequest ==
    pc = "loop" /\ LoopContinues(page, seenTokens, marker, continuationToken)

CanReturnObjects ==
    pc = "loop" /\ ~LoopContinues(page, seenTokens, marker, continuationToken)

CanHandleResponse == pc = "awaiting" /\ Responses # {}

CanAggregate == pc = "fetched"

CanStep == CanIssueRequest \/ CanReturnObjects \/ CanHandleResponse \/ CanAggregate

\* Top of the loop body: the cycle guard passes and the request is sent
IssueRequest ==
    /\ CanIssueRequest
    /\ seenTokens' = seenTokens \cup {TokenKey(marker, continuationToken)}
    /\ pageUrls' = Append(pageUrls, BuildUrl(DATASET_PREFIX, marker, continuationToken))
    /\ pc' = "awaiting"
    /\ UNCHANGED <<page, marker, continuationToken, map, fetched, stats,
                   server, issued, trace, csvVars, keyVars, xmlVars>>

\* The loop ends at the page cap or at the cycle guard: fetchAllObjects returns
ReturnObjects ==
    /\ CanReturnObjects
    /\ fetched' = FetchResult(map, pageUrls)
    /\ pc' = "fetched"
    /\ UNCHANGED <<page, marker, continuationToken, seenTokens, map, pageUrls,
                   stats, server, issued, trace, csvVars, keyVars, xmlVars>>

\* Mutant: a non-success status ends the loop like a last page
HandlePageBreakOnFailure(r, m, p, mk, tok, urls) ==
    IF ~r.ok
    THEN [pc |-> "fetched", page |-> p, marker |-> mk, continuationToken |-> tok,
          map |-> m, fetched |-> FetchResult(m, urls)]
    ELSE LET merged == MergePage(m, r.objects)
             next   == NextCursor(r, mk, tok)
         IN  IF next.more
             THEN [pc |-> "loop", page |-> p + 1, marker |-> next.marker,
                   continuationToken |-> next.continuationToken,
                   map |-> merged, fetched |-> None]
             ELSE [pc |-> "fetched", page |-> p, marker |-> next.marker,
                   continuationToken |-> next.continuationToken,
                   map |-> merged, fetched |-> FetchResult(merged, urls)]

\* What the rest of the loop body makes of a response
HandlePage(r, m, p, mk, tok, urls) ==
    IF ~r.ok
    THEN [pc |-> "failed", page |-> p, marker |-> mk, continuationToken |-> tok,
          map |-> m, fetched |-> None]
    ELSE LET merged == MergePage(m, r.objects)
             next   == NextCursor(r, mk, tok)
         IN  IF next.more
             THEN [pc |-> "loop", page |-> p + 1, marker |-> next.marker,
                   continuationToken |-> next.continuationToken,
                   map |-> merged, fetched |-> None]
             ELSE [pc |-> "fetched", page |-> p, marker |-> next.marker,
                   continuationToken |-> next.continuationToken,
                   map |-> merged, fetched |-> FetchResult(merged, urls)]

\* The locals take the values the loop body left
Continue(n) ==
    /\ pc' = n.pc
    /\ page' = n.page
    /\ marker' = n.marker
    /\ continuationToken' = n.continuationToken
    /\ map' = n.map
    /\ fetched' = n.fetched

\* The response arrives: failure throws, success is parsed, merged and the
\* cursor advanced; a break returns from fetchAllObjects.
HandleResponse ==
    /\ CanHandleResponse
    /\ \E r \in Responses :
         /\ Continue(HandlePage(r, map, page, marker, continuationToken, pageUrls))
         /\ trace' = Observe(trace, r)
         /\ issued' = IF r.ok /\ r.nextContinuationToken = FreshToken(issued + 1)
                      THEN issued + 1 ELSE issued
    /\ UNCHANGED <<seenTokens, pageUrls, stats, server, csvVars, keyVars, xmlVars>>

\* getVerifierAllianceStats folds the fetched objects and returns
Aggregate ==
    /\ CanAggregate
    /\ stats' = [some |-> TRUE, value |-> StatsResponse(fetched.objects, fetched.pageUrls)]
    /\ pc' = "done"
    /\ UNCHANGED <<page, marker, continuationToken, seenTokens, map, pageUrls,
                   fetched, server, issued, trace, csvVars, keyVars, xmlVars>>

Next == IssueRequest \/ ReturnObjects \/ HandleResponse \/ Aggregate

Spec == Init /\ [][Next]_vars

-----------------------------------------------------------------------------
(* The CSV resource *)

\* Bounds of the model
MaxLines == 3
MaxDays == 32
MaxSlope == 2

\* A line of the resource with what it is meant to be: the header, a data
\* row (with its day and count), a blank line, or a line that is neither.
Line(text, kind, day, count) ==
    [text |-> text, kind |-> kind, day |-> day, count |-> count]

Day1 == <<"2","0","2","4","-","0","1","-","0","1">>
Day0 == <<"2","0","2","3","-","1","2","-","3","1">>
Day2 == <<"2","0","2","4","-","0","1","-","0","2">>

Row(day, countText) == day \o <<",">> \o countText

HeaderLine == Line(EXPECTED_HEADER, "header", <<>>, 0)

\* The lines short resources are written from
Lines ==
    { HeaderLine,
      Line(<<"D","a","y",",","C","o","u","n","t">>, "header", <<>>, 0),
      Line(<<"d","a","t","e",",","c","o","u","n","t">>, "bad", <<>>, 0),
      Line(<<>>, "blank", <<>>, 0),
      Line(Row(Day1, <<"3">>), "row", Day1, 3),
      Line(Row(Day1, <<"5">>), "row", Day1, 5),
      Line(Row(Day0, <<"2","\r">>), "row", Day0, 2),
      Line(<<" ">> \o Day2 \o <<" ",","," ","7"," ">>, "row", Day2, 7),
      Line(Row(Day1, <<"3",",","4">>), "bad", <<>>, 0),
      Line(Row(Day1, <<"-","1">>), "bad", <<>>, 0) }

\* More lines, each tried alone under the header
MoreLines ==
    { Line(Row(Day1, <<>>), "bad", <<>>, 0),
      Line(Row(Day1, <<" ">>), "bad", <<>>, 0),
      Line(Day1, "bad", <<>>, 0),
      Line(Row(Day1, <<"x">>), "bad", <<>>, 0),
      Line(Row(Day1, <<"1",".","5">>), "bad", <<>>, 0),
      Line(Row(Day1, <<"1","_","0">>), "bad", <<>>, 0),
      Line(Row(Day1, <<"I","n","f","i","n","i","t","y">>), "bad", <<>>, 0),
      Line(Row(Day1, <<"1","2">>), "row", Day1, 12),
      Line(Row(Day1, <<"0">>), "row", Day1, 0),
      Line(Row(Day1, <<"0","0","7">>), "row", Day1, 7),
      Line(Row(<<"2","0","2","4","-","1","-","0","1">>, <<"3">>), "bad", <<>>, 0),
      Line(Row(<<"2","0","2","4","/","0","1","/","0","1">>, <<"3">>), "bad", <<>>, 0),
      Line(Row(<<"x">> \o Day1, <<"3">>), "bad", <<>>, 0),
      Line(Row(<<>>, <<"3">>), "bad", <<>>, 0),
      Line(Row(Day1, <<"3",",">>), "bad", <<>>, 0),
      Line(Day1 \o <<";","3">>, "bad", <<>>, 0),
      Line(<<" "," ">>, "blank", <<>>, 0),
      Line(<<"\t">> \o Row(Day2, <<"4">>) \o <<"\r">>, "row", Day2, 4) }

\* Other headers, each tried with one row
MoreHeaders ==
    { Line(<<"D","A","Y",",","C","O","U","N","T">>, "header", <<>>, 0),
      Line(<<" ">> \o EXPECTED_HEADER \o <<" ","\r">>, "header", <<>>, 0),
      Line(<<"d","a","y",","," ","c","o","u","n","t">>, "bad", <<>>, 0),
      Line(<<"d","a","y",",","c","o","u","n","t",",","x">>, "bad", <<>>, 0),
      Line(<<"d","a","y",";","c","o","u","n","t">>, "bad", <<>>, 0),
      Line(<<"d","a","y">>, "bad", <<>>, 0) }

\* The resource a sequence of lines is: the lines joined by line feeds
RECURSIVE JoinRange(_, _, _)
JoinRange(ls, lo, hi) ==
    IF lo > hi THEN <<>>
    ELSE IF lo = hi THEN ls[lo].text
    ELSE JoinRange(ls, lo, (lo + hi) \div 2) \o <<"\n">>
         \o JoinRange(ls, ((lo + hi) \div 2) + 1, hi)

JoinLines(ls) == JoinRange(ls, 1, Len(ls))

\* A generated day: the i-th year of the century, 1 January
GenDay(i) ==
    <<"2","0">> \o (IF i < 10 THEN <<"0">> ELSE <<>>) \o Decimal(i) \o
    <<"-","0","1","-","0","1">>

\* A generated row: day i with the count (a * i + b) % 7
GenLine(i, a, b) ==
    Line(Row(GenDay(i), Decimal((a * i + b) % 7)), "row", GenDay(i), (a * i + b) % 7)

Reverse(q) == [i \in 1..Len(q) |-> q[Len(q) + 1 - i]]

\* Long resources: n generated rows, oldest or newest first
GenInput(n, a, b, newestFirst) ==
    LET rows == [i \in 1..n |-> GenLine(i, a, b)]
    IN  <<HeaderLine>> \o (IF newestFirst THEN Reverse(rows) ELSE rows)

\* Resources with days repeated and out of order, blank lines between
MixedInputs ==
    LET r13 == Line(Row(Day1, <<"3">>), "row", Day1, 3)
        r15 == Line(Row(Day1, <<"5">>), "row", Day1, 5)
        r02 == Line(Row(Day0, <<"2","\r">>), "row", Day0, 2)
        r27 == Line(<<" ">> \o Day2 \o <<" ",","," ","7"," ">>, "row", Day2, 7)
        bl  == Line(<<>>, "blank", <<>>, 0)
        bad == Line(Row(Day1, <<"-","1">>), "bad", <<>>, 0)
    IN  { <<HeaderLine, r27, r13, bl, r02, r15>>,
          <<bl, HeaderLine, r15, r02, r13, r27, r02, bl>>,
          <<HeaderLine, r13, r15, r13, r15>>,
          <<HeaderLine, r27, r13, r02, bad, r15>>,
          <<bl, bl, bl, bl>> }

Inputs ==
    SeqsUpTo(Lines, MaxLines)
    \cup MixedInputs
    \cup { <<HeaderLine, l>> : l \in MoreLines }
    \cup { <<h, Line(Row(Day1, <<"3">>), "row", Day1, 3)>> : h \in MoreHeaders }
    \cup { GenInput(n, a, b, f) : n \in 4..MaxDays, a \in 0..MaxSlope,
                                   b \in {0, 3}, f \in BOOLEAN }

\* The resource rewritten from a series: the header, then day,count per point
Serialize(series) ==
    <<HeaderLine>> \o
    [i \in 1..Len(series) |->
        Line(Row(series[i].day, Decimal(series[i].count)), "row",
             series[i].day, series[i].count)]

InitCsv ==
    /\ pc = "csv"
    /\ input \in Inputs
    /\ csvFile = JoinLines(input)
    /\ daily = [state |-> "none"]
    /\ prev = None
    /\ RunIdle
    /\ server = "none"
    /\ KeyIdle
    /\ XmlIdle

\* getVerifiedContractsDailyData: read, parse, summarize; a parse error throws
LoadDaily ==
    /\ pc = "csv"
    /\ LET parsed == parseCsv(csvFile)
       IN  daily' = IF parsed.ok
                    THEN [state |-> "data", series |-> parsed.series,
                          summary |-> summarizeSeries(parsed.series)]
                    ELSE [state |-> "error", error |-> parsed.error, line |-> parsed.line]
    /\ pc' = "csv_done"
    /\ UNCHANGED <<csvFile, input, prev, runVars, keyVars, xmlVars>>

\* The resource is rewritten from the series just served, once
Rewrite ==
    /\ pc = "csv_done"
    /\ daily.state = "data"
    /\ ~prev.some
    /\ prev' = [some |-> TRUE, series |-> daily.series]
    /\ input' = Serialize(daily.series)
    /\ csvFile' = JoinLines(Serialize(daily.series))
    /\ daily' = [state |-> "none"]
    /\ pc' = "csv"
    /\ UNCHANGED <<runVars, keyVars, xmlVars>>

NextCsv == LoadDaily \/ Rewrite

SpecCsv == InitCsv /\ [][NextCsv]_vars

-----------------------------------------------------------------------------
(* Object keys to classify *)

KeyPrefixes ==
    { DATASET_PREFIX, <<"v","2">>, <<>>, <<"v","1","/">>,
      <<"/">> \o DATASET_PREFIX, <<"V","2","/">> }

\* First path segments: the category names, alone, with something before
\* and with something after, and two that are no category's
KeySegments ==
    { before \o TABLES[i] \o after :
        i \in 1..Len(TABLES),
        before \in { <<>>, <<"x">> },
        after \in { <<>>, <<".">>, <<".","x">>, <<"_","o","l","d">>, <<"s">> } }
    \cup { <<>>, <<"o","t","h","e","r">> }

KeyRests ==
    { <<>>, <<"/">>, <<"/","x">>,
      <<"/","p","a","r","t","-","0",".","p","a","r","q","u","e","t">> }

Keys == { p \o g \o r : p \in KeyPrefixes, g \in KeySegments, r \in KeyRests }

InitKey ==
    /\ pc = "key"
    /\ keyIn \in Keys
    /\ tableOut = NULL
    /\ RunIdle
    /\ server = "none"
    /\ CsvIdle
    /\ XmlIdle

Classify ==
    /\ pc = "key"
    /\ tableOut' = getTableFromKey(keyIn)
    /\ pc' = "key_done"
    /\ UNCHANGED <<keyIn, runVars, csvVars, xmlVars>>

NextKey == Classify

SpecKey == InitKey /\ [][NextKey]_vars

-----------------------------------------------------------------------------
(* A bucket to aggregate *)

\* Bound of the model
MaxObjects == 4

KeySourcesDot == <<"v","2","/","s","o","u","r","c","e","s",".","1","/","a">>

\* The keys of the bucket, in the order its one page lists them: outside
\* the prefix, of no category, of sources (dotted and plain), of code
BucketKeys == <<KeyOutside, KeySourcesOld, KeySourcesDot, KeySourcesA, KeyCodeB>>

\* The sizes a key's object may have
BucketSizes == << {8, -16}, {4}, {2}, {1}, {32} >>

BucketTimes == {TS1, TS2, TS2b, TS3, TSBad}

\* Key i is not listed, or listed with one of its sizes and a timestamp
Listed(i) ==
    { <<>> } \cup { <<Obj(BucketKeys[i], s, t)>> : s \in BucketSizes[i], t \in BucketTimes }

\* The pages of at most MaxObjects objects
BucketPages ==
    { objs \in { a \o b \o c \o d \o e :
                   a \in Listed(1), b \in Listed(2), c \in Listed(3),
                   d \in Listed(4), e \in Listed(5) } :
        Len(objs) <= MaxObjects }

\* The run right after fetchAllObjects returned from a single page
InitAgg ==
    /\ pc = "fetched"
    /\ page = 0
    /\ marker = NULL
    /\ continuationToken = NULL
    /\ seenTokens = {TokenKey(NULL, NULL)}
    /\ pageUrls = <<BuildUrl(DATASET_PREFIX, NULL, NULL)>>
    /\ \E objs \in BucketPages :
         /\ map = MergePage(<<>>, objs)
         /\ fetched = FetchResult(MergePage(<<>>, objs),
                                  <<BuildUrl(DATASET_PREFIX, NULL, NULL)>>)
         /\ trace = [responses |-> 1, truncated |-> 0, failed |-> FALSE,
                     prefixFresh |-> TRUE, last |-> "final",
                     lastPage |-> PageCursor(FALSE, NULL, NULL, LastKey(objs)),
                     delivered |-> Range(objs), latest |-> Range(objs)]
    /\ stats = None
    /\ issued = 0
    /\ server = "bucket"
    /\ CsvIdle
    /\ KeyIdle
    /\ XmlIdle

NextAgg == Aggregate

SpecAgg == InitAgg /\ [][NextAgg]_vars

-----------------------------------------------------------------------------
(* Listing bodies to parse *)

\* Bound of the model
MaxBlocks == 2

\* A sub-field of an entry as the body has it: the text between its tags
\* (NULL: no such tags), whether that is a value the entry can be kept
\* with, and the value
Field(text, there, value) == [text |-> text, there |-> there, value |-> value]

NoField == Field(NULL, FALSE, NULL)
EmptyField == Field(<<>>, FALSE, NULL)
NoSize == Field(NULL, FALSE, 0)
EmptySize == Field(<<>>, FALSE, 0)
BadSize == Field(<<"x">>, FALSE, 0)

KeyFields ==
    { NoField, EmptyField,
      Field(KeyCodeB, TRUE, KeyCodeB),
      Field(<<" ","a","&","a","m","p",";","b"," ">>, TRUE, <<"a","&","b">>) }

SizeFields ==
    { NoSize, EmptySize, BadSize,
      Field(<<"4">>, TRUE, 4),
      Field(<<"-","5">>, TRUE, -5),
      Field(<<"I","n","f","i","n","i","t","y">>, FALSE, 0) }

TimeFields == { NoField, EmptyField, Field(TS1, TRUE, TS1) }

Block(k, z, t) == [key |-> k, size |-> z, lastModified |-> t]

\* The entries pages of several entries are written from: complete ones,
\* and ones that lack the size, the key or the timestamp or have a size
\* that is no number
CoreBlocks ==
    { Block(Field(KeyCodeB, TRUE, KeyCodeB), z, Field(TS1, TRUE, TS1)) :
        z \in { Field(<<"4">>, TRUE, 4), NoSize, EmptySize, BadSize } }
    \cup { Block(NoField, Field(<<"4">>, TRUE, 4), Field(TS1, TRUE, TS1)),
           Block(Field(KeySourcesA, TRUE, KeySourcesA), Field(<<"-","5">>, TRUE, -5),
                 NoField) }

AllBlocks == { Block(k, z, t) : k \in KeyFields, z \in SizeFields, t \in TimeFields }

Element(tag, text) == IF text = NULL THEN <<>> ELSE OpenTag(tag) \o text \o CloseTag(tag)

BlockText(b) ==
    OpenTag(CONTENTS) \o Element(KEY, b.key.text)
    \o Element(LAST_MODIFIED, b.lastModified.text)
    \o Element(SIZE, b.size.text) \o CloseTag(CONTENTS)

RECURSIVE BlocksText(_)
BlocksText(blocks) ==
    IF blocks = <<>> THEN <<>> ELSE BlockText(Head(blocks)) \o BlocksText(Tail(blocks))

LIST_BUCKET_RESULT == <<"L","i","s","t","B","u","c","k","e","t","R","e","s","u","l","t">>

\* A page as the endpoint may write it
Page(blocks, truncated, next, token) ==
    [some |-> TRUE, blocks |-> blocks, isTruncated |-> truncated,
     nextMarker |-> next, nextContinuationToken |-> token]

PageText(l) ==
    OpenTag(LIST_BUCKET_RESULT)
    \o Element(IS_TRUNCATED, l.isTruncated) \o Element(NEXT_MARKER, l.nextMarker)
    \o Element(NEXT_CONTINUATION_TOKEN, l.nextContinuationToken)
    \o BlocksText(l.blocks) \o CloseTag(LIST_BUCKET_RESULT)

Pages ==
    { Page(blocks, truncated, next, token) :
        blocks \in SeqsUpTo(CoreBlocks, MaxBlocks),
        truncated \in { NULL, <<"t","r","u","e">>, <<"T","r","u","e">>,
                        <<"f","a","l","s","e">> },
        next \in { NULL, <<>>, <<"m">> },
        token \in { NULL, <<"t">> } }
    \cup { Page(<<b>>, <<"f","a","l","s","e">>, NULL, NULL) : b \in AllBlocks }

InitXml ==
    /\ pc = "xml"
    /\ listing \in Pages
    /\ xmlBody = PageText(listing)
    /\ parsedPage = None
    /\ RunIdle
    /\ server = "none"
    /\ CsvIdle
    /\ KeyIdle

\* const parsed = parseListingXml(xml)
ParseListing ==
    /\ pc = "xml"
    /\ parsedPage' = [some |-> TRUE, value |-> parseListingXml(xmlBody)]
    /\ pc' = "xml_done"
    /\ UNCHANGED <<xmlBody, listing, runVars, csvVars, keyVars>>

NextXml == ParseListing

SpecXml == InitXml /\ [][NextXml]_vars

-----------------------------------------------------------------------------
(* Properties of the fetcher and the aggregator *)

Terminated == pc \in {"done", "failed"}

DistinctKeys(objs) ==
    \A i, j \in 1..Len(objs) : objs[i].key = objs[j].key => i = j

\* objs holds one record of every key delivered, each a delivered record
DedupUnion(objs, delivered) ==
    /\ DistinctKeys(objs)
    /\ Range(objs) \subseteq delivered
    /\ { o.key : o \in Range(objs) } = { o.key : o \in delivered }

\* C1: when every response before the n-th is a truncated page with a
\* non-empty continuation token not used before and the n-th (n <= 250) is
\* not truncated, the run issues exactly n requests, each after the answer
\* to the one before, returns the pages' objects deduplicated by key, and
\* issues no request after the last page.
C1_FreshTokenPagination ==
    /\ Len(pageUrls) - trace.responses \in {0, 1}
    /\ (pc = "awaiting") <=> (Len(pageUrls) = trace.responses + 1)
    /\ (trace.prefixFresh /\ trace.last = "fresh"
            /\ trace.responses < MAX_LISTING_PAGES)
         => /\ pc \in {"loop", "awaiting"}
            /\ pc = "loop" => LoopContinues(page, seenTokens, marker, continuationToken)
    /\ (trace.prefixFresh /\ trace.last = "final"
            /\ trace.responses <= MAX_LISTING_PAGES)
         => /\ pc \in {"fetched", "done"}
            /\ Len(pageUrls) = trace.responses
            /\ fetched.some
            /\ fetched.pageUrls = pageUrls
            /\ DedupUnion(fetched.objects, trace.delivered)

C1_Witness ==
    /\ pc = "done"
    /\ trace.prefixFresh /\ trace.last = "final"
    /\ trace.responses = MAX_LISTING_PAGES
    /\ Len(pageUrls) = MAX_LISTING_PAGES
    /\ Cardinality(trace.delivered) = 2

\* The number of steps a run has left at most: two for every page the cap
\* still allows, one to aggregate
Variant ==
    CASE pc = "loop"     -> 2 * (MAX_LISTING_PAGES - page) + 3
      [] pc = "awaiting" -> 2 * (MAX_LISTING_PAGES - page) + 2
      [] pc = "fetched"  -> 1
      [] OTHER           -> 0

\* C2: whatever the endpoint answers, a run issues at most 250 page
\* requests and terminates: every step lowers a measure that is never
\* negative, and a run that has not ended can always take a step.
C2_BoundedAndTerminates ==
    /\ [](/\ Len(pageUrls) <= MAX_LISTING_PAGES
          /\ Variant >= 0
          /\ Terminated \/ CanStep)
    /\ [][Variant' < Variant]_vars

C2_Witness ==
    /\ pc = "done"
    /\ Len(pageUrls) = MAX_LISTING_PAGES
    /\ trace.last = "fresh"

\* C3: at every moment the map holds at most one record per key, the one
\* of the key's most recently merged occurrence (a later page replaces an
\* earlier one, a later entry of a page an earlier entry), and so does the
\* array fetchAllObjects returns.
C3_LastSeenWins ==
    /\ \A i, j \in 1..Len(map) : map[i].key = map[j].key => i = j
    /\ \A i \in 1..Len(map) : map[i].value.key = map[i].key
    /\ Range(MapValues(map)) = trace.latest
    /\ fetched.some =>
         /\ DistinctKeys(fetched.objects)
         /\ Range(fetched.objects) = trace.latest

C3_Witness ==
    /\ fetched.some
    /\ trace.responses = 2
    /\ Obj(KeySourcesA, 1, TS1) \in trace.delivered
    /\ Obj(KeySourcesA, 2, TS2) \in trace.delivered
    /\ Obj(KeySourcesA, 1, TS1) \in trace.latest
    /\ Len(fetched.objects) = 2

\* C4: once a page request got a non-success status the run has failed:
\* no request follows it (the page is not asked for again) and neither
\* the objects merged before nor stats are returned.
C4_FailureAbortsRun ==
    trace.failed =>
        /\ pc = "failed"
        /\ trace.last = "failed"
        /\ Len(pageUrls) = trace.responses
        /\ ~fetched.some
        /\ ~stats.some

C4_Witness ==
    /\ pc = "failed"
    /\ trace.failed
    /\ trace.responses = 3
    /\ Len(map) = 2

\* C5: the tables of a stats response are the seven declared categories,
\* each once and in the declared order; a category no fetched object is
\* classified to has files 0, sizeBytes 0, sizeGB 0 and latestUpdate null.
C5_AllCategoriesListed ==
    stats.some =>
        LET tables == stats.value.tables
        IN  /\ Len(tables) = 7
            /\ Len(TABLES) = 7
            /\ \A i \in 1..7 : tables[i].table = TABLES[i]
            /\ \A i, j \in 1..7 : tables[i].table = tables[j].table => i = j
            /\ \A i \in 1..7 :
                 (\A k \in 1..Len(fetched.objects) :
                      getTableFromKey(fetched.objects[k].key) # tables[i].table)
                 => /\ tables[i].files = 0
                    /\ tables[i].sizeBytes = 0
                    /\ tables[i].sizeGB = [num |-> 0, den |-> 1]
                    /\ tables[i].latestUpdate = NULL

C5_Witness ==
    /\ stats.some
    /\ \E i \in 1..7 : stats.value.tables[i].files > 0
    /\ \E i \in 1..7 : stats.value.tables[i].files = 0
                       /\ stats.value.tables[i].latestUpdate = NULL

-----------------------------------------------------------------------------
(* Properties of the daily series *)

\* The lines of a resource that are not blank
Written(ls) == LET NotBlank(l) == l.kind # "blank" IN SelectSeq(ls, NotBlank)

\* A resource as it is meant to be written: the header, then data rows
WellFormed(ls) ==
    /\ Written(ls) # <<>>
    /\ Written(ls)[1].kind = "header"
    /\ \A i \in 2..Len(Written(ls)) : Written(ls)[i].kind = "row"

DataRows(ls) == Tail(Written(ls))

\* The sum of the numbers f[lo], ..., f[hi]
RECURSIVE SumOf(_, _, _)
SumOf(f, lo, hi) ==
    IF lo > hi THEN 0
    ELSE IF lo = hi THEN f[lo]
    ELSE SumOf(f, lo, (lo + hi) \div 2) + SumOf(f, ((lo + hi) \div 2) + 1, hi)

\* The sum of the counts the rows give a day
DayTotal(rows, day) ==
    SumOf([i \in 1..Len(rows) |-> IF rows[i].day = day THEN rows[i].count ELSE 0],
          1, Len(rows))

\* The rows in other orders: from these three every order is composed
Rotate(q) == IF q = <<>> THEN q ELSE Tail(q) \o <<Head(q)>>
SwapFirstTwo(q) == IF Len(q) < 2 THEN q ELSE <<q[2], q[1]>> \o SubSeq(q, 3, Len(q))
Reorderings(rows) == { Reverse(rows), Rotate(rows), SwapFirstTwo(rows) }

\* C6: of a resource with the header and valid data rows, in whatever
\* order the rows stand, the series has exactly one point for every day of
\* the rows, its count the sum of the counts of that day's rows, the points
\* in strictly ascending order of day; the rows in another order give the
\* same series.
C6_MergesAndSorts ==
    (pc = "csv_done" /\ WellFormed(input)) =>
        /\ daily.state = "data"
        /\ { daily.series[i].day : i \in 1..Len(daily.series) }
               = { r.day : r \in Range(DataRows(input)) }
        /\ \A i \in 1..Len(daily.series) :
               daily.series[i].count = DayTotal(DataRows(input), daily.series[i].day)
        /\ \A i, j \in 1..Len(daily.series) :
               i < j => LocaleCompare(daily.series[i].day, daily.series[j].day) < 0
        /\ \A rows \in Reorderings(DataRows(input)) :
               parseCsv(JoinLines(<<HeaderLine>> \o rows))
                   = [ok |-> TRUE, series |-> daily.series]

C6_Witness ==
    /\ pc = "csv_done"
    /\ ~prev.some
    /\ WellFormed(input)
    /\ Len(DataRows(input)) = 4
    /\ DataRows(input)[1].day = Day2
    /\ daily.state = "data"
    /\ daily.series = << [day |-> Day0, count |-> 2], [day |-> Day1, count |-> 8],
                         [day |-> Day2, count |-> 7] >>

\* C7: when the resource has been rewritten from a series it was parsed to
\* (the header, then day,count for every point in series order), parsing
\* it again gives that same series.
C7_ReparseIsIdentity ==
    (pc = "csv_done" /\ prev.some) =>
        /\ daily.state = "data"
        /\ daily.series = prev.series

C7_Witness ==
    /\ pc = "csv_done"
    /\ prev.some
    /\ Len(input) = 4
    /\ daily.state = "data"
    /\ daily.series = << [day |-> Day0, count |-> 2], [day |-> Day1, count |-> 8],
                         [day |-> Day2, count |-> 7] >>

\* The sum of the counts of the points lo..hi of a series
CountsFrom(series, lo, hi) ==
    SumOf([i \in 1..Len(series) |-> series[i].count], lo, hi)

Min(a, b) == IF a <= b THEN a ELSE b

\* avg (in hundredths) is total / n rounded to two decimal places
IsRounded(avg, total, n) ==
    /\ 2 * (avg * n - 100 * total) <= n
    /\ 2 * (100 * total - avg * n) <= n

\* avg is the rounded mean of the last min(window, length) counts, 0 of none
IsTrailingAverage(avg, series, window) ==
    LET n == Min(window, Len(series))
    IN  IF n = 0 THEN avg = 0
        ELSE IsRounded(avg, CountsFrom(series, Len(series) - n + 1, Len(series)), n)

\* C8: the summary of a parsed series has for average7d and average30d the
\* mean of the counts of the last min(N, length) points rounded to two
\* decimal places, so of all points when there are fewer than N; of the
\* empty series both are 0, total is 0 and latestDay and latestCount are
\* null; a resource without lines gives the empty series and its summary.
C8_TrailingAverages ==
    /\ (pc = "csv_done" /\ Written(input) = <<>>) =>
           daily.state = "data" /\ daily.series = <<>>
    /\ (pc = "csv_done" /\ daily.state = "data") =>
           /\ IsTrailingAverage(daily.summary.average7d, daily.series, 7)
           /\ IsTrailingAverage(daily.summary.average30d, daily.series, 30)
           /\ daily.summary.total = CountsFrom(daily.series, 1, Len(daily.series))
           /\ daily.series = <<>> =>
                  /\ daily.summary.total = 0
                  /\ daily.summary.average7d = 0
                  /\ daily.summary.average30d = 0
                  /\ daily.summary.latestDay = NULL
                  /\ daily.summary.latestCount = NullNumber
           /\ daily.series # <<>> =>
                  /\ daily.summary.latestDay = daily.series[Len(daily.series)].day
                  /\ daily.summary.latestCount
                         = JustNumber(daily.series[Len(daily.series)].count)

C8_Witness ==
    /\ pc = "csv_done"
    /\ daily.state = "data"
    /\ Len(daily.series) = 31
    /\ daily.summary.average30d % 100 # 0
    /\ daily.summary.average7d # daily.summary.average30d
    /\ daily.summary.total # CountsFrom(daily.series, 2, 31)

\* C9: a resource with a line that is not blank is parsed to a series
\* exactly when its first such line is the header in any case and every
\* later one is a day of the shape dddd-dd-dd, a comma and a non-negative
\* integer; otherwise the load fails and gives no series.
C9_AcceptsExactlyWellFormed ==
    (pc = "csv_done" /\ Written(input) # <<>>) =>
        /\ (daily.state = "data") <=> WellFormed(input)
        /\ daily.state \in {"data", "error"}

-----------------------------------------------------------------------------
(* Properties of the classifier *)

\* The characters of a key after the dataset prefix and before the next slash
SegmentAfterPrefix(key) ==
    LET rest == SubSeq(key, Len(DATASET_PREFIX) + 1, Len(key))
        cut  == { i \in 1..Len(rest) : rest[i] = "/" }
        end  == IF cut = {} THEN Len(rest)
                ELSE (CHOOSE i \in cut : \A j \in cut : i <= j) - 1
    IN  SubSeq(rest, 1, end)

\* The categories the rule gives a key
CategoriesOf(key) ==
    IF Len(key) < Len(DATASET_PREFIX)
       \/ SubSeq(key, 1, Len(DATASET_PREFIX)) # DATASET_PREFIX
    THEN {}
    ELSE { name \in Range(TABLES) :
             LET seg == SegmentAfterPrefix(key)
             IN  \/ seg = name
                 \/ /\ Len(seg) > Len(name)
                    /\ SubSeq(seg, 1, Len(name) + 1) = name \o <<".">> }

\* C10: a key is classified to a category exactly when it starts with the
\* dataset prefix and its first segment after the prefix is the category's
\* name or starts with the name and a dot, and to none otherwise;
\* v2/sources/part-0.parquet is classified to sources, v2/sources_old/x to
\* none; the rule gives no key two categories, and the list of categories
\* in the opposite order classifies the key the same.
C10_ClassifiesByFirstSegment ==
    pc = "key_done" =>
        /\ Cardinality(CategoriesOf(keyIn)) <= 1
        /\ (tableOut = NULL) <=> (CategoriesOf(keyIn) = {})
        /\ tableOut # NULL => tableOut \in CategoriesOf(keyIn)
        /\ StartsWith(keyIn, DATASET_PREFIX) =>
               FindTable(Reverse(TABLES),
                         FirstSegment(Slice(keyIn, Len(DATASET_PREFIX)), "/")) = tableOut
        /\ keyIn = DATASET_PREFIX \o TABLES[2] \o
                   <<"/","p","a","r","t","-","0",".","p","a","r","q","u","e","t">>
               => tableOut = TABLES[2]
        /\ keyIn = KeySourcesOld => tableOut = NULL

C10_Witness ==
    /\ pc = "key_done"
    /\ keyIn = DATASET_PREFIX \o TABLES[2] \o <<".","x">> \o
               <<"/","p","a","r","t","-","0",".","p","a","r","q","u","e","t">>
    /\ tableOut = TABLES[2]

-----------------------------------------------------------------------------
(* Properties of the totals *)

\* The fetched objects getTableFromKey gives the category, or none (NULL)
ObjectsOf(table) ==
    { k \in 1..Len(fetched.objects) : getTableFromKey(fetched.objects[k].key) = table }

\* The sum of the sizes of the fetched objects with index in S
SizeOver(S) ==
    SumOf([k \in 1..Len(fetched.objects) |->
              IF k \in S THEN fetched.objects[k].size ELSE 0],
          1, Len(fetched.objects))

\* Counts and sums of the response: global, and per category as they
\* should be
CountsAreExact ==
    /\ stats.value.totals.files = Len(fetched.objects)
    /\ stats.value.totals.sizeBytes = SizeOver(1..Len(fetched.objects))
    /\ \A i \in 1..Len(TABLES) :
         /\ stats.value.tables[i].files = Cardinality(ObjectsOf(TABLES[i]))
         /\ stats.value.tables[i].sizeBytes = SizeOver(ObjectsOf(TABLES[i]))
    /\ \A i, j \in 1..Len(TABLES) :
         i # j => ObjectsOf(TABLES[i]) \cap ObjectsOf(TABLES[j]) = {}

CategoryFiles == SumOf([i \in 1..Len(TABLES) |-> stats.value.tables[i].files], 1, Len(TABLES))

CategoryBytes ==
    SumOf([i \in 1..Len(TABLES) |-> stats.value.tables[i].sizeBytes], 1, Len(TABLES))

-----------------------------------------------------------------------------
(* Properties of the latest update *)

Parses(k) == ~DateParse(fetched.objects[k].lastModified).nan

Instant(k) == DateParse(fetched.objects[k].lastModified).v

\* Of the fetched objects with index in S: the timestamp of the first one,
\* in processing order, whose instant is the greatest that parses
LatestOf(S) ==
    fetched.objects[
        CHOOSE k \in S :
            /\ Parses(k)
            /\ \A j \in S : Parses(j) => Instant(j) <= Instant(k)
            /\ \A j \in S : (Parses(j) /\ Instant(j) = Instant(k)) => k <= j
    ].lastModified

SomeParses(S) == \E k \in S : Parses(k)

\* C13: the global latestUpdate, and each category's over its own objects,
\* is the lastModified of greatest parsed instant among the objects whose
\* timestamp parses, the one seen first among equals, wherever objects with
\* unparsable timestamps stand in the processing order.
C13_LatestIsMaxParsed ==
    stats.some =>
        /\ SomeParses(1..Len(fetched.objects)) =>
               stats.value.totals.latestUpdate = LatestOf(1..Len(fetched.objects))
        /\ \A i \in 1..Len(TABLES) :
               SomeParses(ObjectsOf(TABLES[i])) =>
                   stats.value.tables[i].latestUpdate = LatestOf(ObjectsOf(TABLES[i]))

-----------------------------------------------------------------------------
(* Properties of the parsed page *)

\* An entry has its three sub-fields, the size a finite number
Complete(b) == b.key.there /\ b.size.there /\ b.lastModified.there

\* The objects of the complete entries, in page order
RECURSIVE CompleteObjects(_)
CompleteObjects(blocks) ==
    IF blocks = <<>> THEN <<>>
    ELSE (IF Complete(Head(blocks))
          THEN <<[key |-> Head(blocks).key.value,
                  size |-> IntegerNumber(Head(blocks).size.value),
                  lastModified |-> Head(blocks).lastModified.value]>>
          ELSE <<>>)
         \o CompleteObjects(Tail(blocks))

\* C12: the objects parsed from a page are those of the entries that have
\* key, size and lastModified with the size a finite number, in page
\* order; an entry that lacks one of the three (no size field, an empty
\* size field) or has a size that is no finite number is left out, and the
\* page is parsed all the same.
C12_KeepsCompleteEntries ==
    pc = "xml_done" =>
        /\ parsedPage.some
        /\ parsedPage.value.objects = CompleteObjects(listing.blocks)

-----------------------------------------------------------------------------
(* Properties of the cursor *)

\* A page gives a marker or a token: the element is there and not empty
Given(v) == v # NULL /\ v # <<>>

\* The run ended in the loop body, at the page received last, and not at
\* the top of a later iteration: page counts the iterations completed
StoppedAtPage == pc \in {"fetched", "done"} /\ page < trace.responses

\* The request for marker m and token t, one of them NULL
RequestFor(m, t) ==
    [prefix |-> DATASET_PREFIX, listType |-> IF t = NULL THEN NULL ELSE <<"2">>,
     continuationToken |-> t, marker |-> m]

\* The run went on after the page received last with the cursor (m, t):
\* the locals hold it, and the request sent next, if one is, carries it
GoesOnWith(m, t) ==
    /\ ~StoppedAtPage
    /\ marker = m /\ continuationToken = t
    /\ pc = "awaiting" => pageUrls[Len(pageUrls)] = RequestFor(m, t)

\* C14: after a truncated page without a continuation token the run goes
\* on with a marker request, the marker being the page's next-marker if
\* the page gives one and else the key of the page's last object, and it
\* stops at the page only when neither is available; after a truncated
\* page with a continuation token it goes on with that token, list-type 2
\* and no marker; no request carries both a marker and a token.
C14_CursorFollowsThePage ==
    /\ \A i \in 1..Len(pageUrls) :
          /\ pageUrls[i].marker = NULL \/ pageUrls[i].continuationToken = NULL
          /\ (pageUrls[i].listType # NULL) = (pageUrls[i].continuationToken # NULL)
    /\ trace.lastPage.isTruncated =>
          LET p == trace.lastPage
          IN  IF Given(p.nextContinuationToken)
              THEN GoesOnWith(NULL, p.nextContinuationToken)
              ELSE IF Given(p.nextMarker) THEN GoesOnWith(p.nextMarker, NULL)
              ELSE IF p.lastKey # NULL THEN GoesOnWith(p.lastKey, NULL)
              ELSE StoppedAtPage

-----------------------------------------------------------------------------
(* Properties of the cycle guard *)

\* The (marker, continuation token) pairs of the requests sent so far: a
\* request carries the marker and the token that were active
RequestedPairs ==
    { <<pageUrls[i].marker, pageUrls[i].continuationToken>> : i \in 1..Len(pageUrls) }

\* C15: at the top of an iteration the cycle guard stops the run if and
\* only if the active (marker, continuation token) pair is the pair of an
\* earlier request of the run, whatever characters the two contain; so no
\* two requests of a run carry the same pair, and a pair that differs from
\* every pair requested before is never stopped by the guard.
C15_GuardStopsExactlyRepeats ==
    /\ \A i, j \in 1..Len(pageUrls) :
          i < j => <<pageUrls[i].marker, pageUrls[i].continuationToken>>
                   # <<pageUrls[j].marker, pageUrls[j].continuationToken>>
    /\ (pc = "loop" /\ page < MAX_LISTING_PAGES) =>
          ((TokenKey(marker, continuationToken) \in seenTokens)
             <=> (<<marker, continuationToken>> \in RequestedPairs))

=============================================================================
